---- MODULE Spec2Model ----
(***************************************************************************)
(* Model of pycoolmasternet_async/coolmasternet.py: the CoolMasterNet      *)
(* bridge client (_make_request, status) and the CoolMasterNetUnit         *)
(* snapshot (create, _parse, refresh and the mutators).                    *)
(*                                                                         *)
(* Strings are sequences of one-character strings, so that readuntil,      *)
(* endswith, startswith, strip, split and replace are computed as Python   *)
(* computes them.                                                          *)
(***************************************************************************)
EXTENDS Integers, Sequences, FiniteSets, TLC

\* ------------------------------------------------------------------ bounds

\* Number of calls the caller makes on the instance, one after another.
MaxCalls == 2

\* Number of transactions in which the bridge departs from its nominal
\* exchange (accept, prompt, nominal answer).
MaxDeviations == 1

\* Status lines of ParseSpec have at most MaxFields fields.
MaxFields == 10

\* Longest byte string the reader holds when FramingSpec starts.
MaxBody == 4


\* ------------------------------------------------------- string helpers

Min(a, b) == IF a < b THEN a ELSE b

\* s[i:j] of Python for 0 <= i, 0 <= j (0-based, end exclusive, clamped).
Slice(s, i, j) == SubSeq(s, i + 1, Min(j, Len(s)))

\* str.endswith
EndsWith(s, suf) ==
    /\ Len(suf) <= Len(s)
    /\ SubSeq(s, Len(s) - Len(suf) + 1, Len(s)) = suf

\* str.startswith
StartsWith(s, pre) ==
    /\ Len(pre) <= Len(s)
    /\ SubSeq(s, 1, Len(pre)) = pre

\* 1-based positions at which sep occurs in s.
Occurrences(s, sep) ==
    {i \in 1..(Len(s) - Len(sep) + 1) : SubSeq(s, i, i + Len(sep) - 1) = sep}

\* First position of sep in s, 0 when absent (str.find + 1).
Find(s, sep) ==
    IF Occurrences(s, sep) = {} THEN 0
    ELSE CHOOSE i \in Occurrences(s, sep) : \A j \in Occurrences(s, sep) : i <= j

\* Characters str.strip() and \s treat as whitespace.
Whitespace == {" ", "\t", "\n", "\r"}

\* In the recursive operators below each argument is bound by a set
\* quantifier, so that it is a value, evaluated once, at every level of the
\* recursion.

RECURSIVE LStrip(_)
LStripOf(x) ==
    IF x # <<>> /\ Head(x) \in Whitespace THEN LStrip(Tail(x)) ELSE x

\* str.lstrip()
LStrip(s) == CHOOSE r \in {LStripOf(x) : x \in {s}} : TRUE

RECURSIVE RStrip(_)
RStripOf(x) ==
    IF x # <<>> /\ x[Len(x)] \in Whitespace
    THEN RStrip(SubSeq(x, 1, Len(x) - 1))
    ELSE x

\* str.rstrip()
RStrip(s) == CHOOSE r \in {RStripOf(x) : x \in {s}} : TRUE

\* str.strip()
Strip(s) == RStrip(LStrip(s))

RECURSIVE Split(_, _)
SplitAt(x, sep, i) ==
    IF i = 0 THEN <<x>>
    ELSE <<SubSeq(x, 1, i - 1)>> \o Split(SubSeq(x, i + Len(sep), Len(x)), sep)

\* str.split(sep): always at least one piece.
Split(s, sep) ==
    CHOOSE r \in {SplitAt(x, sep, i) : <<x, i>> \in {<<s, Find(s, sep)>>}} : TRUE

RECURSIVE ReSplitWs(_, _)
ReSplitWsOf(x, c) ==
    LET ws == {i \in 1..Len(x) : x[i] \in Whitespace} IN
    IF ws = {} THEN <<c \o x>>
    ELSE LET i == CHOOSE i \in ws : \A j \in ws : i <= j IN
         <<c \o SubSeq(x, 1, i - 1)>>
            \o ReSplitWs(LStrip(SubSeq(x, i, Len(x))), <<>>)

\* Pieces of s between runs of whitespace, cur being the piece begun; s is
\* stripped, so no piece is empty unless s itself is empty:
\* re.split(r"\s+", s).
ReSplitWs(s, cur) ==
    CHOOSE r \in {ReSplitWsOf(x, c) : <<x, c>> \in {<<s, cur>>}} : TRUE

RECURSIVE Replace(_, _, _)
ReplaceAt(x, old, new, i) ==
    IF i = 0 THEN x
    ELSE SubSeq(x, 1, i - 1) \o new
         \o Replace(SubSeq(x, i + Len(old), Len(x)), old, new)

\* str.replace(old, new): every non-overlapping occurrence, left to right.
Replace(s, old, new) ==
    CHOOSE r \in {ReplaceAt(x, old, new, i) : <<x, i>> \in {<<s, Find(s, old)>>}} : TRUE

\* ------------------------------------------------------------- constants

m_auto == <<"a","u","t","o">>
m_cool == <<"c","o","o","l">>
m_dry  == <<"d","r","y">>
m_fan  == <<"f","a","n">>
m_heat == <<"h","e","a","t">>

_MODES == {m_auto, m_cool, m_dry, m_fan, m_heat}

s_horizontal == <<"h","o","r","i","z","o","n","t","a","l">>
s_30         == <<"3","0">>
s_45         == <<"4","5">>
s_60         == <<"6","0">>
s_vertical   == <<"v","e","r","t","i","c","a","l">>
s_stop       == <<"s","t","o","p">>

\* The dict as a set of <<key, value>> pairs.
_SWING_CHAR_TO_NAME ==
    { <<(<<"a">>), m_auto>>, <<(<<"h">>), s_horizontal>>, <<(<<"3">>), s_30>>,
      <<(<<"4">>), s_45>>, <<(<<"6">>), s_60>>, <<(<<"v">>), s_vertical>>,
      <<(<<"x">>), s_stop>> }

_SWING_NAME_TO_CHAR == { <<kv[2], kv[1]>> : kv \in _SWING_CHAR_TO_NAME }

SWING_MODES == { kv[2] : kv \in _SWING_CHAR_TO_NAME }

\* dict.get(key): <<value>> when the key is present, <<>> (None) otherwise.
DictGet(d, key) ==
    IF \E kv \in d : kv[1] = key
    THEN <<(CHOOSE kv \in d : kv[1] = key)[2]>>
    ELSE <<>>

\* asyncio.Semaphore(3)
PoolSize == 3

\* The bridge lists one unit more than the pool has slots, so that the
\* create tasks of one status() call have to wait for each other.
MaxLines == PoolSize + 1

\* Task 0 is the coroutine of the caller; task i > 0 is the i-th task that
\* asyncio.gather runs for a status() call.
Caller == 0
Tasks == 0..MaxLines

\* ------------------------------------------------- wire and literal text

LF   == <<"\n">>
CRLF == <<"\r","\n">>
\* b">", the prompt and the separator of the first readuntil
PromptBytes == <<">">>
\* b"\n>", the separator of the second readuntil
Terminator == <<"\n",">">>
\* "OK\r\n", the success marker
OkMarker == <<"O","K","\r","\n">>

t_ls2         == <<"l","s","2">>
t_ls2_sp      == <<"l","s","2"," ">>
t_query_sp    == <<"q","u","e","r","y"," ">>
t_sp_s        == <<" ","s">>
t_UID         == <<"U","I","D">>
t_sp_UID      == <<" ","U","I","D">>
t_swing_UID   == <<"s","w","i","n","g"," ","U","I","D"," ">>
t_on_UID      == <<"o","n"," ","U","I","D">>
t_off_UID     == <<"o","f","f"," ","U","I","D">>
t_fspeed_UID  == <<"f","s","p","e","e","d"," ","U","I","D"," ">>
t_temp_UID    == <<"t","e","m","p"," ","U","I","D"," ">>
t_filt_UID    == <<"f","i","l","t"," ","U","I","D">>
t_lock_UID    == <<"l","o","c","k"," ","U","I","D"," ">>
t_feed_UID    == <<"f","e","e","d"," ","U","I","D"," ">>
t_Unsupported ==
    <<"U","n","s","u","p","p","o","r","t","e","d"," ","F","e","a","t","u","r","e">>

\* ------------------------------------------------------ results, errors

NoValue == [kind |-> "none", exc |-> "", msg |-> "", val |-> <<>>]

\* A value returned by _make_request: the response body.
Return(v) == [kind |-> "return", exc |-> "", msg |-> "", val |-> v]

\* An exception of class exc raised with message msg.
Raise(e, m) == [kind |-> "raise", exc |-> e, msg |-> m, val |-> <<>>]

\* ------------------------------------------------- StreamReader.readuntil

\* reader.readuntil(sep) on the bytes the reader receives: the bytes up to
\* and including the first sep, the rest staying buffered.
ReadUntil(stream, sep) ==
    LET i == Find(stream, sep) IN
    IF i = 0
    THEN [found |-> FALSE, data |-> <<>>, rest |-> stream]
    ELSE [found |-> TRUE,
          data  |-> SubSeq(stream, 1, i + Len(sep) - 1),
          rest  |-> SubSeq(stream, i + Len(sep), Len(stream))]

\* Variant: a read that fails is reported as a missing prompt.
ReadFailure_PromptNotFound(eof) ==
    Raise("ConnectionError", "CoolMasterNet prompt not found")

\* The outcome of asyncio.wait_for(reader.readuntil(sep), read_timeout) when
\* no sep arrives: IncompleteReadError once the peer has closed the stream,
\* TimeoutError when the stream stays open and silent.
ReadFailure(eof) ==
    IF eof THEN Raise("IncompleteReadError", "") ELSE Raise("TimeoutError", "")

\* Variant: the success marker is looked for before the ">" is dropped.
StripFraming_OkFirst(response) ==
    LET data == response
        d1   == IF EndsWith(data, OkMarker \o PromptBytes)
                THEN SubSeq(data, 1, Len(data) - 5) \o PromptBytes ELSE data
    IN IF EndsWith(d1, Terminator) THEN SubSeq(d1, 1, Len(d1) - 1) ELSE d1

\* Lines 46-53: decode, drop the trailing ">" of "\n>", drop a trailing
\* "OK\r\n".
StripFraming(response) ==
    LET data == response
        d1   == IF EndsWith(data, Terminator)
                THEN SubSeq(data, 1, Len(data) - 1) ELSE data
    IN IF EndsWith(d1, OkMarker) THEN SubSeq(d1, 1, Len(d1) - 4) ELSE d1

\* ------------------------------------------------------------ the bridge
\* The bridge is the environment: what it sends on a connection is drawn
\* from the sets below.

Digit(i) == <<"0","1","2","3","4","5","6","7","8","9">>[i + 1]

\* The 6-character identifier of the i-th unit behind the bridge.
UnitId(i) == <<"L","1",".","1","0">> \o <<Digit(i)>>

LineOn(id) ==
    id \o <<" ","O","N"," ","2","1","C"," ","2","3","C"," ","M","e","d"," ",
            "C","o","o","l"," ","O","K"," ","-"," ","0">>

LineOff(id) ==
    id \o <<" ","O","F","F"," ","2","1","C"," ","2","3","C"," ","L","o","w",
            " ","H","e","a","t"," ","O","K"," ","-"," ","0">>

\* A status line cut short: 3 fields.
LineShort(id) == id \o <<" ","O","N"," ","2","1","C">>

\* The status lines of units 1..n, each ended by CRLF.
RECURSIVE Listing(_)
Listing(n) == IF n = 0 THEN <<>> ELSE Listing(n - 1) \o LineOn(UnitId(n)) \o CRLF

Framed(body) == body \o OkMarker \o PromptBytes

\* What the bridge sends after a connection is accepted, and whether it
\* then closes the connection.
NominalGreeting == [bytes |-> PromptBytes, eof |-> FALSE]

Greetings ==
    { NominalGreeting,
      [bytes |-> <<"\n",">">>,      eof |-> FALSE],
      [bytes |-> <<>>,              eof |-> FALSE],
      [bytes |-> <<>>,              eof |-> TRUE] }

Silent == [bytes |-> <<>>, eof |-> FALSE]
Hangup == [bytes |-> <<>>, eof |-> TRUE]

Answer(body) == [bytes |-> Framed(body), eof |-> FALSE]

\* A listing of two units whose second line is cut short.
BrokenListing ==
    LineOn(UnitId(1)) \o CRLF \o LineShort(UnitId(2)) \o CRLF

\* The response bodies of the bridge to a request, its nominal one first.
Bodies(req) ==
    IF req = t_ls2
    THEN <<Listing(MaxLines), BrokenListing, <<>>>>
    ELSE IF StartsWith(req, t_ls2_sp)
    THEN LET id == SubSeq(req, 5, Len(req)) IN
         <<LineOn(id) \o CRLF, LineOff(id) \o CRLF, LineShort(id) \o CRLF>>
    ELSE IF StartsWith(req, t_query_sp)
    THEN << <<"v">> \o CRLF, <<"0">> \o CRLF >>
    ELSE IF StartsWith(req, <<"s","w","i","n","g"," ">>)
    THEN << <<>>, t_Unsupported \o CRLF >>
    ELSE << <<>> >>

Request(line) == SubSeq(line, 1, Len(line) - 1)

NominalReply(line) == Answer(Bodies(Request(line))[1])

\* What the bridge sends after it has read the request line.
Replies(line) ==
    {Silent, Hangup}
    \cup { Answer(Bodies(Request(line))[i]) :
             i \in DOMAIN Bodies(Request(line)) }

\* ----------------------------------------------------------------- state

VARIABLES
    swing_support,  \* CoolMasterNet._swing_support
    sem,            \* free slots of CoolMasterNet._concurrent_reads
    co,             \* per task: the coroutine (operation, position, locals)
    tx,             \* per task: its _make_request transaction
    result,         \* what the caller's last call returned or raised
    units,          \* the CoolMasterNetUnit snapshots the caller was given
    calls,          \* number of top-level calls made
    devs            \* number of transactions with a departure of the bridge

vars == <<swing_support, sem, co, tx, result, units, calls, devs>>

\* No transaction in progress. pc is the await the transaction is suspended
\* at: "acquire" (Semaphore.acquire, pool full), "open" (open_connection),
\* "prompt" and "response" (the two readuntil), "closing" (wait_closed).
\* conn is "none", "open" or, once writer.close() is called, "closing".
\* prompt and response are the bytes the two readuntil returned, eof whether
\* the bridge has closed the stream, written the lines handed to
\* writer.write.
NoTx ==
    [pc |-> "idle", request |-> <<>>, conn |-> "none", opened |-> 0,
     buf |-> <<>>, eof |-> FALSE, prompt |-> <<>>, written |-> <<>>,
     response |-> <<>>, outcome |-> NoValue]

\* A task that runs nothing. op is the method, stage the await it is
\* suspended at, self the snapshot it was called on, value its argument;
\* unit_id, raw and return_value are locals; ntx counts the _make_request
\* calls of the task and wire lists the lines it wrote; left, got and failed
\* are the state of the gather future of status().
Idle ==
    [op |-> "none", stage |-> "idle", self |-> <<>>, value |-> <<>>,
     unit_id |-> <<>>, raw |-> <<>>, return_value |-> <<>>,
     ntx |-> 0, wire |-> <<>>,
     left |-> 0, got |-> <<>>, failed |-> NoValue]

NoResult == [kind |-> "none", exc |-> "", msg |-> "", unit |-> <<>>, dict |-> {}]

Returned(u, d) ==
    [kind |-> "return", exc |-> "", msg |-> "", unit |-> u, dict |-> d]

Raised(e) ==
    [kind |-> "raise", exc |-> e.exc, msg |-> e.msg, unit |-> <<>>, dict |-> {}]

\* Tasks holding a slot of the pool: inside "async with".
HoldsSlot(t) == tx[t].pc \in {"open", "prompt", "response", "closing"}

Init ==
    /\ swing_support \in BOOLEAN
    /\ sem = PoolSize
    /\ co = [t \in Tasks |-> Idle]
    /\ tx = [t \in Tasks |-> NoTx]
    /\ result = NoResult
    /\ units = {}
    /\ calls = 0
    /\ devs = 0

\* --------------------------------------------------- CoolMasterNetUnit

Upper == <<"A","B","C","D","E","F","G","H","I","J","K","L","M",
           "N","O","P","Q","R","S","T","U","V","W","X","Y","Z">>
Lower == <<"a","b","c","d","e","f","g","h","i","j","k","l","m",
           "n","o","p","q","r","s","t","u","v","w","x","y","z">>

\* str.lower()
ToLower(s) ==
    [i \in 1..Len(s) |->
        IF \E k \in 1..26 : Upper[k] = s[i]
        THEN Lower[CHOOSE k \in 1..26 : Upper[k] = s[i]]
        ELSE s[i]]

Digits == {Digit(i) : i \in 0..9}

DigitValue(c) == CHOOSE i \in 0..9 : Digit(i) = c

\* int() of a string of decimal digits.
RECURSIVE NatOf(_)
NatOf(s) ==
    IF s = <<>> THEN 0
    ELSE 10 * NatOf(SubSeq(s, 1, Len(s) - 1)) + DigitValue(s[Len(s)])

\* The number m / 10^k without trailing zeros of its fraction.
RECURSIVE Normal(_, _)
Normal(m, k) ==
    IF k > 0 /\ m % 10 = 0 THEN Normal(m \div 10, k - 1) ELSE <<m, k>>

\* float(s) of an unsigned decimal text: digits with at most one point and
\* at least one digit give the number, as <<m, k>> for m / 10^k; any other
\* text of the bridge's letters, digits and marks raises ValueError.
FloatOf(s) ==
    LET dots == {i \in 1..Len(s) : s[i] = "."}
        digs == {i \in 1..Len(s) : s[i] \in Digits}
    IN IF digs = {} \/ Cardinality(dots) > 1 \/ digs \cup dots # 1..Len(s)
       THEN [ok |-> FALSE, val |-> <<>>]
       ELSE [ok  |-> TRUE,
             val |-> Normal(NatOf(SelectSeq(s, LAMBDA c : c \in Digits)),
                            IF dots = {} THEN 0
                            ELSE Len(s) - (CHOOSE i \in dots : TRUE))]

\* Variant: surplus fields are ignored.
FieldCountOk_AtLeast(fields) == Len(fields) >= 9

\* Line 95: the test of the field count.
FieldCountOk(fields) == Len(fields) = 9

\* s[:-1]
DropLast(s) == SubSeq(s, 1, Len(s) - 1)

\* __init__ and _parse: the snapshot built from a raw status line and a raw
\* swing code, fields being the pieces of the line; or the exception
\* raised: ConnectionError for a line without 9 fields (95-96), ValueError
\* of float() for a thermostat or temperature that is no number (100-101).
\* An optional field is <<>> (None) or <<value>>.
ParseFields(unit_id, raw, swing_raw, fields) ==
    IF ~FieldCountOk(fields)
    THEN [ok |-> FALSE, unit |-> <<>>,
          exc |-> Raise("ConnectionError", "Unexpected status line format")]
    ELSE IF ~FloatOf(DropLast(fields[3])).ok \/ ~FloatOf(DropLast(fields[4])).ok
    THEN [ok |-> FALSE, unit |-> <<>>,
          exc |-> Raise("ValueError", "could not convert string to float")]
    ELSE [ok |-> TRUE,
          exc |-> NoValue,
          unit |-> << [unit_id          |-> unit_id,
                       raw              |-> raw,
                       swing_raw        |-> swing_raw,
                       is_on            |-> fields[2] = <<"O","N">>,
                       temperature_unit |->
                           IF fields[3][Len(fields[3])] = "F"
                           THEN "imperial" ELSE "celsius",
                       thermostat       |-> FloatOf(DropLast(fields[3])).val,
                       temperature      |-> FloatOf(DropLast(fields[4])).val,
                       fan_speed        |-> ToLower(fields[5]),
                       mode             |-> ToLower(fields[6]),
                       error_code       |->
                           IF fields[7] # <<"O","K">> THEN <<fields[7]>> ELSE <<>>,
                       clean_filter     |-> fields[8] = <<"#">>,
                       demand           |-> fields[9] = <<"1">>,
                       swing            |-> DictGet(_SWING_CHAR_TO_NAME, swing_raw)] >>]

Parse(unit_id, raw, swing_raw) ==
    CHOOSE p \in {ParseFields(unit_id, raw, swing_raw, fields) :
                    fields \in {ReSplitWs(Strip(raw), <<>>)}} : TRUE

\* The dict comprehension of status(): key -> unit, a later pair replacing
\* an earlier one with the same key. got[i] = <<unit, key>>.
DictOf(got) ==
    { <<got[i][2], got[i][1]>> :
        i \in {i \in DOMAIN got : \A j \in DOMAIN got : j > i => got[j][2] # got[i][2]} }

\* ------------------------------------------------------- the semaphore

\* Variant: acquire never waits.
SlotFree_Always(s) == TRUE

\* Semaphore.acquire returns at once when a slot is free and no task is
\* queued for one; otherwise the task is suspended in acquire.
SlotFree(s) == s > 0

Queued == {x \in Tasks : tx[x].pc = "acquire"}

\* Line 34, "async with self._concurrent_reads" entered with s free slots:
\* the transaction of _make_request(req) at its first suspension.
EnterTx(req, s) ==
    IF SlotFree(s) /\ Queued = {}
    THEN [NoTx EXCEPT !.pc = "open", !.request = req]
    ELSE [NoTx EXCEPT !.pc = "acquire", !.request = req]

\* The free slots after that entry.
EnterSem(s) == IF SlotFree(s) /\ Queued = {} THEN s - 1 ELSE s

\* Variants: the slot is given back only when the transaction returns; not
\* when open_connection fails; not when a read times out.
ReleaseSem_NotOnError(s, out) == IF out.kind = "raise" THEN s ELSE s + 1

ReleaseSem_NotOnRefused(s, out) == IF out.exc = "OSError" THEN s ELSE s + 1

ReleaseSem_NotOnTimeout(s, out) == IF out.exc = "TimeoutError" THEN s ELSE s + 1

\* Variant: the slot is kept when the transaction returns.
ReleaseSem_NotOnReturn(s, out) == IF out.kind = "return" THEN s ELSE s + 1

\* Line 34, leaving "async with": Semaphore.release() after a transaction
\* that ended with out.
ReleaseSem(s, out) == s + 1

\* ------------------------------------------------ coroutine bookkeeping

\* The coroutine r calls _make_request and continues at stage st.
Requesting(r, st) == [r EXCEPT !.stage = st, !.ntx = @ + 1]

\* Task t goes on with coroutine state r and calls _make_request(req),
\* s slots being free.
Continue(t, r, req, s) ==
    /\ co' = [co EXCEPT ![t] = r]
    /\ tx' = [tx EXCEPT ![t] = EnterTx(req, s)]
    /\ sem' = EnterSem(s)
    /\ UNCHANGED <<result, units>>

\* Variant: refresh writes the new state into the object it was called on.
SelfAfter_Updated(r, res) == IF r.self # <<>> /\ res.unit # <<>> THEN res.unit ELSE r.self

\* The object a method was called on when the method ends with res: refresh
\* (112-114) builds a new object with create and assigns nothing to self.
SelfAfter(r, res) == r.self

Range(f) == {f[i] : i \in DOMAIN f}

\* Task t, its coroutine in state r, ends with res. A caller's coroutine
\* hands res to the caller. A gather task hands it to gather: the first
\* exception is set on the gather future, a result is stored at the task's
\* position; once the gather has an exception, or its awaiting status() is
\* gone, the outcome is dropped.
Complete(t, r, res, s) ==
    /\ tx' = [tx EXCEPT ![t] = NoTx]
    /\ sem' = s
    /\ IF t = Caller
       THEN /\ co' = [co EXCEPT ![t] = [r EXCEPT !.stage = "done"]]
            /\ result' = res
            /\ units' = (units \ Range(r.self))
                            \cup Range(SelfAfter(r, res))
                            \cup Range(res.unit)
       ELSE /\ UNCHANGED <<result, units>>
            /\ co' = [co EXCEPT
                        ![t] = Idle,
                        ![Caller] =
                            IF @.stage = "gather" /\ @.failed.kind = "none"
                            THEN IF res.kind = "raise"
                                 THEN [@ EXCEPT !.failed = res]
                                 ELSE [@ EXCEPT
                                         !.got[t] = <<res.unit[1], r.unit_id>>,
                                         !.left = @ - 1]
                            ELSE @]

\* Task t, its coroutine in state r, ends by raising e.
Fail(t, r, e, s) == Complete(t, r, Raised(e), s)

\* Lines 77-83 and 91: CoolMasterNetUnit(bridge, unit_id, raw, swing_raw).
Construct(t, r, swing_raw, s) ==
    LET p == Parse(r.unit_id, r.raw, swing_raw) IN
    IF p.ok
    THEN Complete(t, r, Returned(p.unit, {}), s)
    ELSE Fail(t, r, p.exc, s)

\* Variant: the swing is queried whatever the flag.
CreateSwing_Always(t, r, s) ==
    Continue(t, Requesting(r, "query"), t_query_sp \o r.unit_id \o t_sp_s, s)

\* Lines 89-91 of create: the swing query, then the constructor.
CreateSwing(t, r, s) ==
    IF swing_support
    THEN Continue(t, Requesting(r, "query"), t_query_sp \o r.unit_id \o t_sp_s, s)
    ELSE Construct(t, r, <<>>, s)

\* Lines 87-88 of create(bridge, unit_id) with raw = None.
CreateFetch(t, r, s) ==
    Continue(t, Requesting(r, "ls2"), t_ls2_sp \o r.unit_id, s)

\* Line 110: the request _make_unit_request hands to _make_request.
MakeUnitRequest(unit_id, request) == Replace(request, t_UID, unit_id)

\* ------------------------------------------ continuations after an await

\* Variant: the response of the swing command is not looked at.
SwingUnsupported_Ignored(op, val) == FALSE

\* set_swing, lines 199-202: the response that makes it raise.
SwingUnsupported(op, val) == op = "set_swing" /\ StartsWith(val, t_Unsupported)

\* Variant: feed refreshes like the other mutators.
Refreshes_All(op) == TRUE

\* The mutators that end with "return await self.refresh()": all but feed
\* (221-224).
Refreshes(op) == op # "feed"

\* A mutator after "await self._make_unit_request(...)" (e.g. 198-204,
\* 208-209, 224): the exception propagates; set_swing rejects an
\* "Unsupported Feature" response; feed returns None; the others refresh.
AfterCommand(t, out, s) ==
    LET r == [co[t] EXCEPT !.return_value = out.val] IN
    IF out.kind = "raise"
    THEN Fail(t, co[t], out, s)
    ELSE IF SwingUnsupported(r.op, r.return_value)
    THEN Fail(t, r, Raise("ValueError", "doesn't support swing mode"), s)
    ELSE IF ~Refreshes(r.op)
    THEN Complete(t, r, Returned(<<>>, {}), s)
    ELSE CreateFetch(t, r, s)

\* create after "await bridge._make_request(f'ls2 {unit_id}')" (line 88).
AfterLs2(t, out, s) ==
    IF out.kind = "raise"
    THEN Fail(t, co[t], out, s)
    ELSE CreateSwing(t, [co[t] EXCEPT !.raw = Strip(out.val)], s)

\* create after "await bridge._make_request(f'query {unit_id} s')" (89-91).
AfterQuery(t, out, s) ==
    IF out.kind = "raise"
    THEN Fail(t, co[t], out, s)
    ELSE Construct(t, co[t], Strip(out.val), s)

\* status after "await self._make_request('ls2')" (67-71): one create task
\* per status line is handed to asyncio.gather. The event loop runs the new
\* tasks one after the other, in the order of the lines, each up to its
\* first suspension, before it handles any other event. With swing support
\* each task enters _make_request (lines 89, 34): the first ones take the
\* free slots, the others queue for one. Without swing support each task
\* runs the constructor and ends (line 91): gather gets the results, or the
\* exception of the first task that raises.
AfterBulk(t, out, s) ==
    IF out.kind = "raise"
    THEN Fail(t, co[t], out, s)
    ELSE \E status_lines \in {Split(Strip(out.val), CRLF)} :
         LET n       == Len(status_lines)
             id(i)   == Slice(status_lines[i], 0, 6)
             task(i) == [Idle EXCEPT !.op = "create", !.unit_id = id(i),
                                     !.raw = status_lines[i]]
             slot(i) == SlotFree(s - (i - 1))
         IN /\ UNCHANGED <<result, units>>
            /\ IF swing_support
               THEN /\ co' = [x \in Tasks |->
                               IF x = t
                               THEN [co[t] EXCEPT !.stage = "gather", !.left = n,
                                                  !.raw = Strip(out.val),
                                                  !.got = [i \in 1..n |-> <<>>]]
                               ELSE IF x \in 1..n
                               THEN Requesting(task(x), "query")
                               ELSE co[x]]
                    /\ tx' = [x \in Tasks |->
                               IF x = t THEN NoTx
                               ELSE IF x \in 1..n
                               THEN [NoTx EXCEPT
                                       !.pc = IF slot(x) THEN "open" ELSE "acquire",
                                       !.request = t_query_sp \o id(x) \o t_sp_s]
                               ELSE tx[x]]
                    /\ sem' = s - Cardinality({i \in 1..n : slot(i)})
               ELSE \E p \in {[i \in 1..n |-> Parse(id(i), status_lines[i], <<>>)]} :
                    /\ co' = [co EXCEPT ![t] =
                               [@ EXCEPT
                                  !.stage = "gather",
                                  !.left = 0,
                                  !.raw = Strip(out.val),
                                  !.got = [i \in 1..n |->
                                             IF p[i].ok THEN <<p[i].unit[1], id(i)>>
                                             ELSE <<>>],
                                  !.failed =
                                     IF \A i \in 1..n : p[i].ok THEN NoValue
                                     ELSE p[CHOOSE i \in 1..n :
                                              /\ ~p[i].ok
                                              /\ \A j \in 1..(i - 1) : p[j].ok].exc]]
                    /\ tx' = [tx EXCEPT ![t] = NoTx]
                    /\ sem' = s

\* The coroutine awaiting _make_request goes on with its outcome.
Resume(t, out, s) ==
    CASE co[t].stage = "command" -> AfterCommand(t, out, s)
      [] co[t].stage = "ls2"     -> AfterLs2(t, out, s)
      [] co[t].stage = "query"   -> AfterQuery(t, out, s)
      [] co[t].stage = "bulk"    -> AfterBulk(t, out, s)

\* ------------------------------------------------------- _make_request

\* The bridge departs from its nominal exchange (d) or does not.
Departure(d) ==
    /\ d => devs < MaxDeviations
    /\ devs' = IF d THEN devs + 1 ELSE devs

\* Variant: any bytes ending in ">" pass.
PromptOk_Suffix(prompt) == EndsWith(prompt, PromptBytes)

\* Line 40: the prompt check.
PromptOk(prompt) == prompt = PromptBytes

\* Variant: the connection is left open.
WriterClose_Skipped(r) == [r EXCEPT !.pc = "closing"]

\* Variant: after a failed read the connection is dropped and opened anew.
WriterClose_Retry(r) ==
    IF r.outcome.kind = "raise"
    THEN [r EXCEPT !.pc = "open", !.conn = "none", !.outcome = NoValue]
    ELSE [r EXCEPT !.pc = "closing", !.conn = "closing"]

\* Lines 54-55: the finally block calls writer.close() and then awaits
\* writer.wait_closed().
WriterClose(r) == [r EXCEPT !.pc = "closing", !.conn = "closing"]

\* Variant: the awaiting coroutine goes on inside "async with".
Leave_Holding(t, out) == Resume(t, out, sem)

\* Line 34: leaving "async with" with outcome out, which the awaiting
\* coroutine goes on with.
Leave(t, out) == Resume(t, out, ReleaseSem(sem, out))

\* Line 34: a task suspended in Semaphore.acquire() gets a slot.
Acquire(t) ==
    /\ tx[t].pc = "acquire"
    /\ SlotFree(sem)
    /\ sem' = sem - 1
    /\ tx' = [tx EXCEPT ![t].pc = "open"]
    /\ UNCHANGED <<swing_support, co, result, units, calls, devs>>

\* Line 36: asyncio.open_connection returns, or raises (outside the try).
Open(t) ==
    /\ tx[t].pc = "open"
    /\ \E connected \in BOOLEAN :
         /\ Departure(~connected)
         /\ IF connected
            THEN /\ tx' = [tx EXCEPT ![t].pc = "prompt", ![t].conn = "open",
                                     ![t].opened = @ + 1]
                 /\ UNCHANGED <<sem, co, result, units>>
            ELSE Leave(t, Raise("OSError", "connection refused"))
    /\ UNCHANGED <<swing_support, calls>>

\* Lines 39-43: the prompt read returns or fails; the prompt is checked and
\* the request line written, or the finally block is entered.
PromptRead(t) ==
    /\ tx[t].pc = "prompt"
    /\ \E g \in Greetings :
         /\ Departure(g # NominalGreeting)
         /\ LET r    == ReadUntil(tx[t].buf \o g.bytes, PromptBytes)
                line == tx[t].request \o LF
                seen == [tx[t] EXCEPT !.buf = r.rest, !.eof = g.eof,
                                      !.prompt = r.data]
            IN IF ~r.found
               THEN /\ tx' = [tx EXCEPT ![t] =
                                WriterClose([seen EXCEPT
                                    !.outcome = ReadFailure(g.eof)])]
                    /\ co' = co
               ELSE IF ~PromptOk(r.data)
               THEN /\ tx' = [tx EXCEPT ![t] =
                                WriterClose([seen EXCEPT
                                    !.outcome =
                                        Raise("ConnectionError",
                                              "CoolMasterNet prompt not found")])]
                    /\ co' = co
               ELSE /\ tx' = [tx EXCEPT ![t] =
                                [seen EXCEPT !.pc = "response",
                                             !.written = Append(@, line)]]
                    /\ co' = [co EXCEPT ![t].wire = Append(@, line)]
    /\ UNCHANGED <<swing_support, sem, result, units, calls>>

\* Lines 44-55: the response read returns or fails; the framing is
\* stripped; the finally block is entered.
ResponseRead(t) ==
    /\ tx[t].pc = "response"
    /\ \E a \in Replies(tx[t].written[Len(tx[t].written)]) :
         /\ Departure(a # NominalReply(tx[t].written[Len(tx[t].written)]))
         /\ LET r == ReadUntil(tx[t].buf \o a.bytes, Terminator) IN
            tx' = [tx EXCEPT ![t] =
                     WriterClose([@ EXCEPT
                         !.buf = r.rest, !.eof = a.eof, !.response = r.data,
                         !.outcome = IF r.found
                                     THEN Return(StripFraming(r.data))
                                     ELSE ReadFailure(a.eof)])]
    /\ UNCHANGED <<swing_support, sem, co, result, units, calls>>

\* Line 56 and the end of "async with": wait_closed() returns, the slot is
\* released, the awaiting coroutine goes on.
WaitClosed(t) ==
    /\ tx[t].pc = "closing"
    /\ Leave(t, tx[t].outcome)
    /\ UNCHANGED <<swing_support, calls, devs>>

\* ------------------------------------------------- calls by the caller

\* The caller runs nothing, and no gather task of an earlier status() is
\* still running.
CanCall ==
    /\ calls < MaxCalls
    /\ co[Caller].stage \in {"idle", "done"}
    /\ \A i \in 1..MaxLines : co[i].stage = "idle"

\* The caller starts the coroutine r, which runs up to its first
\* _make_request(req) and continues at stage st when that returns.
StartCall(r, st, req) ==
    /\ CanCall
    /\ calls' = calls + 1
    /\ co' = [co EXCEPT ![Caller] = Requesting(r, st)]
    /\ tx' = [tx EXCEPT ![Caller] = EnterTx(req, sem)]
    /\ sem' = EnterSem(sem)
    /\ result' = NoResult
    /\ UNCHANGED <<swing_support, units, devs>>

\* The caller starts the coroutine r, which raises e before any await.
RejectCall(r, e) ==
    /\ CanCall
    /\ calls' = calls + 1
    /\ co' = [co EXCEPT ![Caller] = [r EXCEPT !.stage = "done"]]
    /\ result' = Raised(e)
    /\ UNCHANGED <<swing_support, sem, tx, units, devs>>

\* The coroutine of a method op called on snapshot u with argument v.
Method(op, u, v) ==
    [Idle EXCEPT !.op = op, !.self = <<u>>, !.unit_id = u.unit_id, !.value = v]

\* Decimal text of a natural number.
RECURSIVE IntToStr(_)
IntToStrOf(k) ==
    IF k < 10 THEN <<Digit(k)>> ELSE IntToStr(k \div 10) \o <<Digit(k % 10)>>

IntToStr(n) == CHOOSE r \in {IntToStrOf(k) : k \in {n}} : TRUE

\* str() of a float with one fractional digit, given in tenths.
FormatTenths(n) == IntToStr(n \div 10) \o <<".">> \o <<Digit(n % 10)>>

\* Arguments the callers pass.
ModeValues  == { m_cool, <<"t","u","r","b","o">>, <<"C","o","o","l">> }
SwingValues == { s_vertical, <<"u","p">>, <<"v">> }
FeedValues  == { 215 }
FanValues   == { <<"l","o","w">>, <<"U","I","D">> }
TempValues  == { 225 }
CreateIds   == { UnitId(1) }

\* The snapshots the caller calls methods on: those of one unit, the units
\* behind the bridge being alike.
Targets == { u \in units : u.unit_id \in CreateIds }

\* Lines 65-67: status() up to its first await.
status ==
    StartCall([Idle EXCEPT !.op = "status"], "bulk", t_ls2)

\* The units of the dict status() returns.
DictValues(d) == {kv[2] : kv \in d}

\* Variant: the units that were built are returned, the others left out.
GatherOutcome_Partial(failed, got) ==
    Returned(<<>>, DictOf(SelectSeq(got, LAMBDA g : g # <<>>)))

\* Lines 68-72: what "await asyncio.gather(...)" and the dict comprehension
\* give: the first exception of a task, or the dict of all units.
GatherOutcome(failed, got) ==
    IF failed.kind = "raise" THEN Raised(failed) ELSE Returned(<<>>, DictOf(got))

\* Lines 68-72: status() after asyncio.gather.
status_gather ==
    /\ co[Caller].stage = "gather"
    /\ co[Caller].failed.kind = "raise" \/ co[Caller].left = 0
    /\ co' = [co EXCEPT ![Caller].stage = "done"]
    /\ result' = GatherOutcome(co[Caller].failed, co[Caller].got)
    /\ units' = units \cup DictValues(result'.dict)
    /\ UNCHANGED <<swing_support, sem, tx, calls, devs>>

\* Lines 86-88: CoolMasterNetUnit.create(bridge, unit_id) called directly.
create(id) ==
    StartCall([Idle EXCEPT !.op = "create", !.unit_id = id], "ls2",
              t_ls2_sp \o id)

\* Lines 112-114
refresh(u) ==
    StartCall(Method("refresh", u, <<>>), "ls2", t_ls2_sp \o u.unit_id)

\* Variant: the mode is sent without the membership test.
set_mode_Unchecked(u, value) ==
    StartCall(Method("set_mode", u, value), "command",
              MakeUnitRequest(u.unit_id, value \o t_sp_UID))

\* Lines 175-183
set_mode(u, value) ==
    IF value \notin _MODES
    THEN RejectCall(Method("set_mode", u, value),
                    Raise("ValueError", "Unrecognized mode"))
    ELSE StartCall(Method("set_mode", u, value), "command",
                   MakeUnitRequest(u.unit_id, value \o t_sp_UID))

\* Lines 191-198
set_swing(u, value) ==
    IF value \notin SWING_MODES
    THEN RejectCall(Method("set_swing", u, value),
                    Raise("ValueError", "Unrecognized swing mode"))
    ELSE StartCall(Method("set_swing", u, value), "command",
                   MakeUnitRequest(u.unit_id,
                       t_swing_UID \o DictGet(_SWING_NAME_TO_CHAR, value)[1]))

\* Lines 206-208
turn_on(u) ==
    StartCall(Method("turn_on", u, <<>>), "command",
              MakeUnitRequest(u.unit_id, t_on_UID))

\* Lines 211-214
turn_off(u) ==
    StartCall(Method("turn_off", u, <<>>), "command",
              MakeUnitRequest(u.unit_id, t_off_UID))

\* Lines 170-172
set_fan_speed(u, value) ==
    StartCall(Method("set_fan_speed", u, value), "command",
              MakeUnitRequest(u.unit_id, t_fspeed_UID \o value))

\* Lines 185-188; tenths is the value: the request carries the value itself,
\* not the rounded one.
set_thermostat(u, tenths) ==
    StartCall(Method("set_thermostat", u, FormatTenths(tenths)), "command",
              MakeUnitRequest(u.unit_id, t_temp_UID \o FormatTenths(tenths)))

\* Lines 216-218
reset_filter(u) ==
    StartCall(Method("reset_filter", u, <<>>), "command",
              MakeUnitRequest(u.unit_id, t_filt_UID))

\* Lines 226-254: lockon, unlockon, locktemp, unlocktemp, lockmode and
\* unlockmode, which differ in the flag they send.
LockFlags ==
    { <<"lockon", <<"+","o">> >>,   <<"unlockon", <<"-","o">> >>,
      <<"locktemp", <<"+","t">> >>, <<"unlocktemp", <<"-","t">> >>,
      <<"lockmode", <<"+","m">> >>, <<"unlockmode", <<"-","m">> >> }

lock(u, m) ==
    StartCall(Method(m[1], u, <<>>), "command",
              MakeUnitRequest(u.unit_id, t_lock_UID \o m[2]))

\* Lines 221-224; tenths is the value, already a multiple of 0.1.
feed(u, tenths) ==
    StartCall(Method("feed", u, FormatTenths(tenths)), "command",
              MakeUnitRequest(u.unit_id, t_feed_UID \o FormatTenths(tenths)))

\* ------------------------------------------------------- specification

Next ==
    \/ status
    \/ status_gather
    \/ \E id \in CreateIds : create(id)
    \/ \E u \in Targets : refresh(u)
    \/ \E u \in Targets, v \in ModeValues : set_mode(u, v)
    \/ \E u \in Targets, v \in SwingValues : set_swing(u, v)
    \/ \E u \in Targets : turn_on(u)
    \/ \E u \in Targets : turn_off(u)
    \/ \E u \in Targets, v \in FanValues : set_fan_speed(u, v)
    \/ \E u \in Targets, v \in TempValues : set_thermostat(u, v)
    \/ \E u \in Targets : reset_filter(u)
    \/ \E u \in Targets, m \in LockFlags : lock(u, m)
    \/ \E u \in Targets, v \in FeedValues : feed(u, v)
    \/ \E t \in Tasks : Acquire(t)
    \/ \E t \in Tasks : Open(t)
    \/ \E t \in Tasks : PromptRead(t)
    \/ \E t \in Tasks : ResponseRead(t)
    \/ \E t \in Tasks : WaitClosed(t)

Spec == Init /\ [][Next]_vars

\* A step of the transaction of task t.
TaskStep(t) ==
    \/ Acquire(t)
    \/ Open(t)
    \/ PromptRead(t)
    \/ ResponseRead(t)
    \/ WaitClosed(t)

\* The scheduling of asyncio: while some task can run, the event loop runs
\* one; open_connection, wait_closed and the reads (bounded by
\* read_timeout) complete. The caller is free to make no further call.
Fairness == WF_vars(status_gather \/ \E t \in Tasks : TaskStep(t))

FairSpec == Spec /\ Fairness

\* ----------------------------------------------- the framing of responses

\* Bytes of which the received data is made in FramingSpec.
FramingAlphabet == {"a", "O", "K", "\r", "\n", ">"}

\* The byte strings of at most n bytes.
ByteStrings(n) == UNION { [1..k -> FramingAlphabet] : k \in 0..n }

\* A turn_on transaction that has written its request and is suspended in
\* the response read (line 44), the reader having buffered any byte string
\* of at most MaxBody bytes.
FramingInit ==
    LET req == MakeUnitRequest(UnitId(1), t_on_UID) IN
    /\ swing_support = FALSE
    /\ sem = PoolSize - 1
    /\ co = [t \in Tasks |->
               IF t = Caller
               THEN [Idle EXCEPT !.op = "turn_on", !.stage = "command",
                                 !.unit_id = UnitId(1), !.ntx = 1,
                                 !.wire = <<req \o LF>>]
               ELSE Idle]
    /\ \E b \in ByteStrings(MaxBody) :
         tx = [t \in Tasks |->
                 IF t = Caller
                 THEN [NoTx EXCEPT !.pc = "response", !.request = req,
                                   !.conn = "open", !.opened = 1,
                                   !.prompt = PromptBytes,
                                   !.written = <<req \o LF>>, !.buf = b]
                 ELSE NoTx]
    /\ result = NoResult
    /\ units = {}
    /\ calls = 1
    /\ devs = 0

FramingNext == \E t \in Tasks : ResponseRead(t)

FramingSpec == FramingInit /\ [][FramingNext]_vars

\* ------------------------------------------------ the parsing of lines

\* The i-th field of a status line of unit 1; fields beyond the ninth are
\* surplus.
FieldAt(i) ==
    IF i <= 9
    THEN << UnitId(1), <<"O","N">>, <<"2","1","C">>, <<"2","3","C">>,
            <<"M","e","d">>, <<"C","o","o","l">>, <<"O","K">>, <<"-">>,
            <<"0">> >>[i]
    ELSE <<"x">>

\* Fields 1..n with sep between them.
RECURSIVE JoinFields(_, _)
JoinFields(n, sep) ==
    IF n = 0 THEN <<>>
    ELSE IF n = 1 THEN FieldAt(1)
    ELSE JoinFields(n - 1, sep) \o sep \o FieldAt(n)

\* A status line of a unit in auxiliary heat: its mode field is "Haux".
LineHaux(id) ==
    id \o <<" ","O","N"," ","2","1","C"," ","2","3","C"," ","M","e","d"," ",
            "H","a","u","x"," ","O","K"," ","-"," ","0">>

\* Status lines of 0..MaxFields fields, with single or mixed whitespace
\* between the fields and with or without whitespace around them; a line
\* of 9 fields whose thermostat is no number; a line whose mode is "Haux".
StatusLines ==
    { lead \o JoinFields(n, sep) \o trail :
        n \in 0..MaxFields, sep \in { <<" ">>, <<" ","\t">> },
        lead \in { <<>>, <<" ">> }, trail \in { <<>>, <<"\t">> } }
    \cup { UnitId(1) \o <<" ","O","N"," ","-","C"," ","2","3","C"," ","M","e","d",
                        " ","C","o","o","l"," ","O","K"," ","-"," ","0">>,
            LineHaux(UnitId(1)) }

\* The response bodies of ParseSpec: one status line, or two.
StatusBodies ==
    { l \o CRLF : l \in StatusLines }
    \cup { l1 \o CRLF \o l2 \o CRLF :
             l1 \in {JoinFields(n, <<" ">>) : n \in 0..MaxFields},
             l2 \in StatusLines }

\* The transaction of request req that has read body and closed its
\* connection (line 55 done, suspended in wait_closed, line 56).
ClosingTx(req, body) ==
    [NoTx EXCEPT !.pc = "closing", !.request = req, !.conn = "closing",
                 !.opened = 1, !.prompt = PromptBytes,
                 !.written = <<req \o LF>>,
                 !.response = Framed(body),
                 !.outcome = Return(StripFraming(Framed(body)))]

\* Without swing support: refresh of a snapshot-less create(bridge, id), or
\* status(), whose "ls2" transaction has received any of StatusBodies.
ParseInit ==
    /\ swing_support = FALSE
    /\ sem = PoolSize - 1
    /\ \E body \in StatusBodies, bulk \in BOOLEAN :
         LET req == IF bulk THEN t_ls2 ELSE t_ls2_sp \o UnitId(1) IN
         /\ co = [t \in Tasks |->
                    IF t = Caller
                    THEN [Idle EXCEPT
                            !.op = IF bulk THEN "status" ELSE "create",
                            !.stage = IF bulk THEN "bulk" ELSE "ls2",
                            !.unit_id = IF bulk THEN <<>> ELSE UnitId(1),
                            !.ntx = 1, !.wire = <<req \o LF>>]
                    ELSE Idle]
         /\ tx = [t \in Tasks |->
                    IF t = Caller THEN ClosingTx(req, body) ELSE NoTx]
    /\ result = NoResult
    /\ units = {}
    /\ calls = 1
    /\ devs = 0

ParseNext == WaitClosed(Caller) \/ status_gather

ParseSpec == ParseInit /\ [][ParseNext]_vars

\* ---------------------------------------------------------- properties

\* Tasks whose connection exists (opened and not yet gone).
Connected == {t \in Tasks : tx[t].conn \in {"open", "closing"}}

Holders == {t \in Tasks : HoldsSlot(t)}

\* The transaction of t has failed in the prompt phase and is in its
\* finally block: by a timeout, by the end of the stream, by other bytes.
PromptFailed(t) ==
    /\ tx[t].pc = "closing"
    /\ tx[t].outcome.kind = "raise"
    /\ tx[t].written = <<>>

PromptTimedOut(t) == PromptFailed(t) /\ tx[t].prompt = <<>> /\ ~tx[t].eof

PromptStreamEnded(t) == PromptFailed(t) /\ tx[t].prompt = <<>> /\ tx[t].eof

PromptMismatch(t) ==
    PromptFailed(t) /\ tx[t].prompt # <<>> /\ tx[t].prompt # PromptBytes

\* The transaction of t got its prompt, wrote its request, got no
\* terminator and is in its finally block.
ResponseFailed(t) ==
    /\ tx[t].pc = "closing"
    /\ tx[t].outcome.kind = "raise"
    /\ tx[t].written # <<>>

PromptNotFound == Raise("ConnectionError", "CoolMasterNet prompt not found")

\* C1: at most 3 connections exist at any time, each owned by one of the
\* at most 3 tasks holding a slot; a task waiting for a slot has no
\* connection.
C1_AtMostThreeConnections ==
    /\ Cardinality(Connected) <= PoolSize
    /\ Cardinality(Holders) <= PoolSize
    /\ Connected \subseteq Holders
    /\ \A t \in Tasks : tx[t].pc = "acquire" => tx[t].conn = "none"

\* Three connections exist and a fourth request waits for a slot.
C1_Witness ==
    /\ Cardinality(Connected) = PoolSize
    /\ \E t \in Tasks : tx[t].pc = "acquire"

\* C2: a connection exists only while its transaction holds a slot; it is
\* opened by a step of a transaction that already held its slot; an open
\* connection is never dropped, it is closed first, and only a transaction
\* whose connection is closed gives its slot back.
C2_CloseBeforeRelease ==
    /\ [](\A t \in Tasks : tx[t].conn # "none" => HoldsSlot(t))
    /\ [][\A t \in Tasks :
            /\ tx[t].conn = "none" /\ tx'[t].conn # "none" => HoldsSlot(t)
            /\ tx[t].conn = "open" => tx'[t].conn \in {"open", "closing"}
            /\ tx[t].opened > 0 /\ tx'[t].opened = 0 => tx[t].conn = "closing"]_vars

\* A transaction whose response read failed has closed its connection and
\* still holds its slot.
C2_Witness ==
    \E t \in Tasks :
        /\ ResponseFailed(t)
        /\ tx[t].conn = "closing"
        /\ sem < PoolSize

SlotsAccounted == sem = PoolSize - Cardinality(Holders)

\* C3: whenever a transaction has failed in the prompt phase, or a request
\* waits for a slot, a state follows in which no failed transaction is
\* left, the slot counter again is 3 minus the transactions in flight, and
\* no request waits: every failed transaction has closed and released,
\* every waiting request has been admitted.
C3_NoStarvation ==
    (\E t \in Tasks : PromptFailed(t) \/ tx[t].pc = "acquire")
        ~> /\ \A t \in Tasks : ~PromptFailed(t) /\ tx[t].pc # "acquire"
           /\ SlotsAccounted

\* A transaction has failed in the prompt phase while another request
\* waits for a slot.
C3_Witness ==
    \E t1, t2 \in Tasks : PromptFailed(t1) /\ tx[t2].pc = "acquire"

\* C4: the free-slot counter is in 0..3 and is 3 minus the number of
\* transactions between acquire and release.
C4_SlotCounter ==
    /\ sem \in 0..PoolSize
    /\ sem = PoolSize - Cardinality(Holders)
    /\ Holders = {} => sem = PoolSize

\* open_connection has failed, no transaction is in flight, 3 slots free.
C4_Witness ==
    /\ result.exc = "OSError"
    /\ Holders = {}
    /\ sem = PoolSize

\* C5: a transaction that has written anything has read exactly ">" as
\* its prompt, and has written its request line and nothing else.
C5_WriteOnlyAfterPrompt ==
    \A t \in Tasks :
        /\ tx[t].written # <<>> =>
              /\ tx[t].prompt = PromptBytes
              /\ tx[t].written = <<tx[t].request \o LF>>
        /\ tx[t].pc \in {"response", "closing"} /\ tx[t].prompt # PromptBytes =>
              tx[t].written = <<>>

\* The prompt read returned "\n>" and the transaction ends without a write.
C5_Witness ==
    \E t \in Tasks :
        /\ PromptMismatch(t)
        /\ tx[t].prompt = Terminator
        /\ tx[t].written = <<>>

\* C6 as stated: a prompt read that times out, and one that returns other
\* bytes than ">", both fail with ConnectionError "prompt not found".
C6_PromptFailureIsProtocolError ==
    \A t \in Tasks :
        PromptTimedOut(t) \/ PromptMismatch(t) => tx[t].outcome = PromptNotFound

\* C6: a prompt read that returns other bytes than ">" fails with
\* ConnectionError "prompt not found"; one that times out fails with
\* TimeoutError; one cut by the end of the stream with IncompleteReadError.
C6_PromptFailureByCase ==
    \A t \in Tasks :
        /\ PromptMismatch(t) => tx[t].outcome = PromptNotFound
        /\ PromptTimedOut(t) => tx[t].outcome.exc = "TimeoutError"
        /\ PromptStreamEnded(t) => tx[t].outcome.exc = "IncompleteReadError"

\* The prompt read has timed out.
C6_Witness ==
    \E t \in Tasks : PromptTimedOut(t) /\ tx[t].outcome.exc = "TimeoutError"

\* C7 as stated: a transaction that got its prompt and no terminator fails
\* with TimeoutError, its connection closed.
C7_NoTerminatorIsTimeout ==
    \A t \in Tasks :
        ResponseFailed(t) =>
            tx[t].outcome.exc = "TimeoutError" /\ tx[t].conn = "closing"

\* C7: a transaction that got its prompt and no terminator fails with
\* TimeoutError when the stream stayed open and with IncompleteReadError
\* when the bridge closed it; its connection is closed, and its next step
\* ends it and gives the slot back.
C7_NoTerminatorEnds ==
    /\ [](\A t \in Tasks :
            ResponseFailed(t) =>
                /\ tx[t].outcome.exc =
                      IF tx[t].eof THEN "IncompleteReadError" ELSE "TimeoutError"
                /\ tx[t].conn = "closing"
                /\ ENABLED WaitClosed(t))
    /\ [][\A t \in Tasks :
            ResponseFailed(t) /\ tx'[t] # tx[t] =>
                tx'[t] = NoTx /\ sem' = sem + 1]_vars

\* The response read has timed out on an open stream.
C7_Witness ==
    \E t \in Tasks :
        /\ ResponseFailed(t)
        /\ ~tx[t].eof
        /\ tx[t].outcome.exc = "TimeoutError"

\* C8: the body returned for a response read up to the terminator is the
\* response without its last ">" and without the "OK\r\n" before it, or,
\* when no "OK\r\n" stands there, the response without its last ">".
C8_Framing ==
    \A t \in Tasks :
        tx[t].pc = "closing" /\ tx[t].outcome.kind = "return" =>
            LET r == tx[t].response
                d == tx[t].outcome.val
            IN /\ EndsWith(r, Terminator)
               /\ \/ r = d \o OkMarker \o PromptBytes
                  \/ r = d \o PromptBytes /\ ~EndsWith(d, OkMarker)

\* The response "aOK\r\n>" has been read and the body "a" returned.
C8_Witness ==
    \E t \in Tasks :
        /\ tx[t].pc = "closing"
        /\ tx[t].response = <<"a">> \o OkMarker \o PromptBytes
        /\ tx[t].outcome = Return(<<"a">>)

\* The caller's last call was set_mode or set_swing with a value outside
\* the accepted names.
InvalidArgument ==
    \/ co[Caller].op = "set_mode" /\ co[Caller].value \notin _MODES
    \/ co[Caller].op = "set_swing" /\ co[Caller].value \notin SWING_MODES

\* C9: set_mode and set_swing with a value outside the accepted names
\* raise ValueError with no transaction started: no slot taken, no
\* connection, nothing written.
C9_RejectedBeforeTransaction ==
    InvalidArgument =>
        /\ co[Caller].stage = "done"
        /\ result.kind = "raise"
        /\ result.exc = "ValueError"
        /\ co[Caller].ntx = 0
        /\ co[Caller].wire = <<>>
        /\ tx[Caller] = NoTx
        /\ sem = PoolSize

\* set_mode("turbo") has raised ValueError.
C9_Witness ==
    /\ co[Caller].op = "set_mode"
    /\ co[Caller].value = <<"t","u","r","b","o">>
    /\ result.exc = "ValueError"

\* C10: set_swing with an accepted name whose swing command is answered
\* with "Unsupported Feature..." raises ValueError after that one
\* exchange: one _make_request, one line written, no refresh.
C10_UnsupportedSwing ==
    co[Caller].op = "set_swing"
        /\ StartsWith(co[Caller].return_value, t_Unsupported) =>
        /\ co[Caller].stage = "done"
        /\ result.kind = "raise"
        /\ result.exc = "ValueError"
        /\ result.msg = "doesn't support swing mode"
        /\ co[Caller].ntx = 1
        /\ co[Caller].wire =
              << <<"s","w","i","n","g"," ">> \o co[Caller].unit_id \o <<" ">>
                 \o DictGet(_SWING_NAME_TO_CHAR, co[Caller].value)[1] \o LF >>
        /\ tx[Caller] = NoTx

\* set_swing("vertical") got "Unsupported Feature" and has raised.
C10_Witness ==
    /\ co[Caller].op = "set_swing"
    /\ co[Caller].value = s_vertical
    /\ StartsWith(co[Caller].return_value, t_Unsupported)
    /\ result.exc = "ValueError"

\* The methods that send a command and then refresh.
RefreshingOps ==
    {"turn_on", "turn_off", "set_fan_speed", "set_mode", "set_thermostat",
     "set_swing", "reset_filter"} \cup {m[1] : m \in LockFlags}

\* The lines of the refresh of unit id.
Ls2Line(id) == t_ls2_sp \o id \o LF

QueryLine(id) == t_query_sp \o id \o t_sp_s \o LF

\* C11: a refreshing mutator runs its transactions one after another: the
\* command, then "ls2 {id}", then, with swing support only, "query {id} s";
\* the call holds at most one slot, the slot of the transaction it is in.
C11_MutatorSequential ==
    co[Caller].op \in RefreshingOps =>
        LET r    == co[Caller]
            wire == r.wire
        IN /\ sem = PoolSize - (IF HoldsSlot(Caller) THEN 1 ELSE 0)
           /\ Len(wire) <= r.ntx
           /\ Len(wire) >= 1 => wire[1] \notin {Ls2Line(r.unit_id), QueryLine(r.unit_id)}
           /\ Len(wire) >= 2 => wire[2] = Ls2Line(r.unit_id)
           /\ Len(wire) >= 3 => wire[3] = QueryLine(r.unit_id) /\ swing_support
           /\ r.stage = "command" => r.ntx = 1
           /\ r.stage = "ls2" => r.ntx = 2 /\ Len(wire) >= 1
           /\ r.stage = "query" => r.ntx = 3 /\ Len(wire) >= 2 /\ swing_support
           /\ r.stage = "done" /\ result.kind = "return" =>
                 /\ r.ntx = (IF swing_support THEN 3 ELSE 2)
                 /\ Len(wire) = r.ntx
           /\ r.stage \in {"command", "ls2", "query", "done"}

\* turn_off has returned after its three transactions.
C11_Witness ==
    /\ co[Caller].op = "turn_off"
    /\ co[Caller].stage = "done"
    /\ result.kind = "return"
    /\ co[Caller].ntx = 3
    /\ Len(co[Caller].wire) = 3

\* C12: a snapshot never changes after construction: every snapshot that
\* exists keeps the values of all its fields in every step (unit_id, is_on,
\* thermostat, temperature, fan_speed, mode, error_code, clean_filter,
\* demand, swing, temperature_unit); new state appears only as a new
\* snapshot, the one the method returns.
C12_SnapshotFrozen ==
    [][/\ units \subseteq units'
       /\ co[Caller].stage # "done" /\ co'[Caller].stage = "done"
             => /\ Range(co'[Caller].self) \subseteq units'
                /\ Range(result'.unit) \subseteq units']_vars

\* turn_off has returned a snapshot that differs from the one it was called
\* on, and both exist.
C12_Witness ==
    /\ co[Caller].op = "turn_off"
    /\ co[Caller].stage = "done"
    /\ result.kind = "return"
    /\ result.unit # co[Caller].self
    /\ co[Caller].self[1].is_on /\ ~result.unit[1].is_on
    /\ co[Caller].self[1].thermostat = <<21, 0>>
    /\ {co[Caller].self[1], result.unit[1]} \subseteq units

\* C13: feed(v) runs exactly one transaction, whose line is "feed {id} {v}";
\* it does not refresh and returns no snapshot.
C13_FeedOneTransaction ==
    co[Caller].op = "feed" =>
        LET r == co[Caller] IN
        /\ r.stage \in {"command", "done"}
        /\ r.ntx = 1
        /\ Len(r.wire) <= 1
        /\ Len(r.wire) = 1 =>
              r.wire[1] = <<"f","e","e","d"," ">> \o r.unit_id \o <<" ">>
                             \o r.value \o LF
        /\ r.stage = "done" /\ result.kind = "return" =>
              /\ Len(r.wire) = 1
              /\ result.unit = <<>>
              /\ result.dict = {}

\* feed(21.5) has returned after its transaction.
C13_Witness ==
    /\ co[Caller].op = "feed"
    /\ co[Caller].stage = "done"
    /\ result.kind = "return"
    /\ co[Caller].value = <<"2","1",".","5">>
    /\ tx[Caller] = NoTx

\* C14: status() is all or nothing: when the construction of one unit
\* fails (a malformed status line, a failed swing query) status() raises
\* that error; a mapping is returned only when it holds a unit for every
\* line of the bulk response.
C14_StatusAllOrNothing ==
    co[Caller].op = "status" /\ co[Caller].stage = "done" =>
        LET r == co[Caller] IN
        /\ r.failed.kind = "raise" => result = Raised(r.failed)
        /\ result.kind = "return" =>
              /\ Len(r.got) = Len(Split(r.raw, CRLF))
              /\ \A i \in DOMAIN r.got :
                    /\ r.got[i] # <<>>
                    /\ \E kv \in result.dict :
                          /\ kv[1] = r.got[i][2]
                          /\ kv[2].unit_id = r.got[i][2]
              /\ Cardinality(result.dict) = Len(r.got)

\* status() has raised the error of a malformed line although another
\* unit of the listing had been built.
C14_Witness ==
    /\ co[Caller].op = "status"
    /\ co[Caller].stage = "done"
    /\ result.kind = "raise"
    /\ result.exc = "ConnectionError"
    /\ result.msg = "Unexpected status line format"
    /\ \E i \in DOMAIN co[Caller].got : co[Caller].got[i] # <<>>

\* The number of whitespace-separated tokens of s.
TokenCount(s) ==
    Cardinality({ i \in 1..Len(s) :
                    /\ s[i] \notin Whitespace
                    /\ i = 1 \/ s[i - 1] \in Whitespace })

\* C15: a raw status line whose number of whitespace-separated tokens is
\* not 9 yields no snapshot, and its construction fails with
\* ConnectionError "Unexpected status line format"; so does the empty line
\* of an empty bulk response. In status() the error raised is that of the
\* first line whose construction fails.
C15_NineFields ==
    LET r == co[Caller]
        bad(l) == TokenCount(l) # 9
    IN /\ r.op = "create" /\ r.stage = "done" /\ r.self = <<>> /\ bad(r.raw) =>
             /\ result.kind = "raise"
             /\ result.exc = "ConnectionError"
             /\ result.msg = "Unexpected status line format"
             /\ result.unit = <<>>
             /\ units = {}
       /\ r.op = "status" /\ r.stage \in {"gather", "done"} =>
             \E lines \in {Split(r.raw, CRLF)} :
                \A i \in DOMAIN lines :
                   bad(lines[i]) =>
                      /\ r.got[i] = <<>>
                      /\ r.failed.kind = "raise"
                      /\ (\A j \in 1..(i - 1) : r.got[j] # <<>>) =>
                            /\ r.failed.exc = "ConnectionError"
                            /\ r.failed.msg = "Unexpected status line format"
                      /\ r.stage = "done" =>
                            /\ result = Raised(r.failed)
                            /\ units = {}

\* status() has raised ConnectionError for the empty line of an empty bulk
\* response.
C15_Witness ==
    /\ co[Caller].op = "status"
    /\ co[Caller].stage = "done"
    /\ co[Caller].raw = <<>>
    /\ Len(co[Caller].got) = 1
    /\ result.kind = "raise"
    /\ result.exc = "ConnectionError"
    /\ units = {}

\* C16: every snapshot that was constructed has a mode of the set
\* {auto, cool, dry, fan, heat}, in lower case, whatever 9-field status
\* line the bridge returned. Line 103 stores fields[5].lower() and tests
\* nothing: the line "L1.101 ON 21C 23C Med Haux OK - 0" gives a snapshot
\* of mode "haux".
C16_ModeInSet ==
    /\ \A u \in units : u.mode \in _MODES
    /\ \A u \in Range(result.unit) : u.mode \in _MODES
    /\ \A kv \in result.dict : kv[2].mode \in _MODES

\* A snapshot of mode "haux" exists.
C16_Witness ==
    \E u \in units : u.mode = <<"h","a","u","x">> /\ u.is_on

\* C17: without swing support every snapshot, of status(), refresh() or a
\* mutator, has no swing, and no "query {id} s" transaction is issued.
C17_NoSwingNoQuery ==
    ~swing_support =>
        /\ \A u \in units \cup Range(result.unit) \cup DictValues(result.dict) :
              u.swing = <<>> /\ u.swing_raw = <<>>
        /\ \A t \in Tasks :
              /\ co[t].stage # "query"
              /\ ~StartsWith(tx[t].request, t_query_sp)
              /\ \A i \in DOMAIN co[t].wire : ~StartsWith(co[t].wire[i], t_query_sp)
              /\ co[t].op \in RefreshingOps \cup {"refresh", "create"} => co[t].ntx <= 2
              /\ co[t].op = "status" => co[t].ntx <= 1

\* Without swing support, status() has returned its units and a mutator a
\* snapshot, after two transactions.
C17_Witness ==
    /\ ~swing_support
    /\ Cardinality(units) >= 1
    /\ co[Caller].op = "set_swing"
    /\ co[Caller].stage = "done"
    /\ result.kind = "return"
    /\ result.unit[1].swing = <<>>
    /\ co[Caller].ntx = 2

\* C18: a _make_request call opens at most one connection and writes at
\* most one line, its request, on every path; after a failure it ends, it
\* does not go back to opening a connection; so the lines a task wrote are
\* at most as many as its _make_request calls.
C18_FireOnce ==
    \A t \in Tasks :
       /\ tx[t].opened <= 1
       /\ Len(tx[t].written) <= 1
       /\ tx[t].written # <<>> =>
             /\ tx[t].written[1] = tx[t].request \o LF
             /\ tx[t].opened = 1
       /\ tx[t].pc \in {"acquire", "open"} => tx[t].opened = 0 /\ tx[t].written = <<>>
       /\ tx[t].outcome.kind = "raise" => tx[t].pc = "closing"
       /\ Len(co[t].wire) <= co[t].ntx

\* A transaction whose prompt read timed out is closing its only
\* connection, nothing written.
C18_Witness ==
    \E t \in Tasks :
       /\ tx[t].pc = "closing"
       /\ tx[t].outcome.exc = "TimeoutError"
       /\ tx[t].opened = 1
       /\ tx[t].written = <<>>

\* The gather tasks of status() that have not ended.
Running == {i \in 1..MaxLines : co[i].stage # "idle"}

\* status() is under way.
StatusPending ==
    co[Caller].op = "status" /\ co[Caller].stage \in {"bulk", "gather"}

\* While status() runs its bulk transaction no task exists; once the tasks
\* exist the bulk transaction is over and holds no slot; a task runs one
\* transaction, its swing query, and only with swing support; status()
\* itself runs one transaction.
StatusTransactions ==
    /\ \A i \in Running :
          /\ swing_support
          /\ co[i].op = "create" /\ co[i].stage = "query"
          /\ co[i].ntx = 1
          /\ tx[i].request \o LF = QueryLine(co[i].unit_id)
          /\ co[Caller].stage # "bulk"
    /\ co[Caller].op = "status" =>
          /\ co[Caller].ntx = 1
          /\ co[Caller].stage = "bulk" => Running = {}
          /\ co[Caller].stage = "gather" =>
                /\ tx[Caller] = NoTx
                /\ ~HoldsSlot(Caller)
                /\ sem = PoolSize - Cardinality({i \in Running : HoldsSlot(i)})
                /\ co[Caller].failed.kind = "none" =>
                      /\ {i \in DOMAIN co[Caller].got : co[Caller].got[i] = <<>>}
                            = Running
                      /\ co[Caller].left = Cardinality(Running)

\* status() has ended; if the bridge never departed from its nominal
\* exchange, it has returned the units of all MaxLines lines, every task
\* having ended.
StatusDone ==
    /\ co[Caller].stage = "done"
    /\ devs = 0 =>
          /\ result.kind = "return"
          /\ Cardinality(result.dict) = MaxLines
          /\ Running = {}
          /\ sem = PoolSize

\* C19: status() does not deadlock on the pool. Its bulk transaction is
\* over, slot released, before a task per status line starts; the tasks,
\* more than the pool has slots, run one swing query each, so that the call
\* makes 1 + N transactions, 1 without swing support; and under fair
\* scheduling status() ends, returning all N units when the bridge answers
\* as it should.
C19_StatusCompletes ==
    /\ [] StatusTransactions
    /\ StatusPending ~> StatusDone

\* status() with swing support has returned the units of MaxLines lines,
\* more than the pool has slots.
C19_Witness ==
    /\ swing_support
    /\ MaxLines > PoolSize
    /\ co[Caller].op = "status"
    /\ co[Caller].stage = "done"
    /\ result.kind = "return"
    /\ Cardinality(result.dict) = MaxLines

\* C20: set_fan_speed(v) on unit id sends exactly the line
\* "fspeed {id} {v}": the id takes the place of the template's placeholder
\* and v is sent as given, also when v contains the text "UID". Lines 172
\* and 110 format v into the template first and then replace every "UID":
\* set_fan_speed("UID") on unit L1.101 sends "fspeed L1.101 L1.101".
C20_FanSpeedLine ==
    \A t \in Tasks :
       co[t].op = "set_fan_speed" =>
          /\ tx[t].pc # "idle" =>
                tx[t].request = <<"f","s","p","e","e","d"," ">> \o co[t].unit_id
                                   \o <<" ">> \o co[t].value
          /\ Len(co[t].wire) >= 1 =>
                co[t].wire[1] = <<"f","s","p","e","e","d"," ">> \o co[t].unit_id
                                   \o <<" ">> \o co[t].value \o LF

\* set_fan_speed("UID") has written a line in which the value is replaced
\* by the unit identifier.
C20_Witness ==
    /\ co[Caller].op = "set_fan_speed"
    /\ co[Caller].value = t_UID
    /\ Len(co[Caller].wire) >= 1
    /\ co[Caller].wire[1] =
          <<"f","s","p","e","e","d"," ">> \o co[Caller].unit_id \o <<" ">>
             \o co[Caller].unit_id \o LF

====
